---- MODULE Spec2Model ----
(***************************************************************************)
(* File-allocation engines of File_System.cpp:                             *)
(*   ContiguousFileSystem<N>          (cfs)                                *)
(*   ModifiedContiguousFileSystem<N>  (mcfs)                               *)
(*   LinkedFileSystem<N>              (lfs)                                *)
(*   IndexedFileSystem<N>             (ifs)                                *)
(* main() feeds every command to four independent instances.  The engines  *)
(* share no state, so a behaviour of the model drives one instance, chosen *)
(* in Init (variable engine); cfs and mcfs are built with any of the four  *)
(* hole-search strategies.                                                 *)
(*                                                                         *)
(* An uncaught exception (std::out_of_range thrown by bitset::set) or a    *)
(* memory fault ends the process: the model then stops, with the objects   *)
(* as the statements executed before the fault left them.                  *)
(***************************************************************************)
EXTENDS Integers, Sequences, FiniteSets, TLC

\* ----- bounds of the model ------------------------------------------------
\* number of blocks of the device (template parameter N)
N == 3
\* largest size argument of a command
MaxSize == 2
\* largest offset argument of a command
MaxOffset == 1

\* number of blocks of the device on which the hole searches are examined
SearchN == 6

\* largest size argument where reads and writes across the runs of a
\* modified-contiguous file are examined
ChainMaxSize == 3

\* <climits> INT_MAX, the initial min_size of best_fit
INT_MAX == 2147483647

Names == {"a", "b"}
Sizes == 0..MaxSize
\* the size argument of a read: -1 asks for the whole file (cfs, mcfs, ifs)
ReadSizes == Sizes \cup {-1}
\* what the reads past the end of the bitset may give (see CfsBit): none of
\* them 0, or the first 1, 2, ... of them; a write reads at most
\* MaxSize + MaxOffset positions
OobReads == 0..(MaxSize + MaxOffset)
Offsets == 0..MaxOffset
Strategies == {"FIRST_FIT", "BEST_FIT", "NEXT_FIT", "WORST_FIT"}
Engines == {"cfs", "mcfs", "lfs", "ifs"}

VARIABLES
    engine,   \* the instance the commands of this run are given to
    cfs,      \* ContiguousFileSystem<N> object
    mcfs,     \* ModifiedContiguousFileSystem<N> object
    lfs,      \* LinkedFileSystem<N> object
    ifs,      \* IndexedFileSystem<N> object
    last,     \* the command processed last (operation, file name) and its outcome
    snap      \* BlockMap / free list as it was before the create processed last,
              \* and the number of ids that create took

vars == <<engine, cfs, mcfs, lfs, ifs, last, snap>>

\* ----- helpers -------------------------------------------------------------
\* sum of f[x] over the x in S
RECURSIVE SumOver(_, _)
SumOver(S, f) ==
    IF S = {} THEN 0
    ELSE LET x == CHOOSE y \in S : TRUE IN f[x] + SumOver(S \ {x}, f)

\* function f with key k removed (unordered_map::erase)
Erase(f, k) == [x \in (DOMAIN f) \ {k} |-> f[x]]

\* function f with f[k] = v added or replaced (unordered_map::operator[] =)
Put(f, k, v) == [x \in (DOMAIN f) \cup {k} |-> IF x = k THEN v ELSE f[x]]

\* bitset<N>: set / reset the bits of the positions in S
SetBits(memory_map, S) == [i \in DOMAIN memory_map |-> IF i \in S THEN 1 ELSE memory_map[i]]
ResetBits(memory_map, S) == [i \in DOMAIN memory_map |-> IF i \in S THEN 0 ELSE memory_map[i]]

\* the outcomes after which the process no longer runs
Faults == {"out_of_range", "segfault"}

\* ----- hole search (ContiguousFileSystem, protected) --------------------------
\* The searches are methods of an object fs with the members memory_map
\* (bitset<N>, positions 0..N-1), memory_size (= N), start_index and strategy.

\* inner loop of first_fit / next_fit:
\*   while(j < memory_size && j < i+size && memory_map[j] == 0) j++;
RECURSIVE ScanBounded(_, _, _)
ScanBounded(fs, j, lim) ==
    IF j < fs.memory_size /\ j < lim /\ fs.memory_map[j] = 0
    THEN ScanBounded(fs, j + 1, lim)
    ELSE j

\* inner loop of best_fit / worst_fit:
\*   while(j < memory_size && memory_map[j] == 0) j++;
RECURSIVE ScanHole(_, _)
ScanHole(fs, j) ==
    IF j < fs.memory_size /\ fs.memory_map[j] = 0
    THEN ScanHole(fs, j + 1)
    ELSE j

RECURSIVE first_fit_loop(_, _, _)
first_fit_loop(fs, size, i) ==
    IF i < fs.memory_size
    THEN IF fs.memory_map[i] = 0
         THEN LET j == ScanBounded(fs, i, i + size)
              IN IF j = i + size
                 THEN i
                 ELSE first_fit_loop(fs, size, i + j)
         ELSE first_fit_loop(fs, size, i + 1)
    ELSE -1

first_fit(fs, size) == first_fit_loop(fs, size, 0)

RECURSIVE best_fit_loop(_, _, _, _, _)
best_fit_loop(fs, size, i, min_size, ind) ==
    IF i < fs.memory_size
    THEN IF fs.memory_map[i] = 0
         THEN LET j == ScanHole(fs, i)
              IN IF j >= i + size /\ j - i <= min_size
                 THEN best_fit_loop(fs, size, j, j - i, i)
                 ELSE best_fit_loop(fs, size, j, min_size, ind)
         ELSE best_fit_loop(fs, size, i + 1, min_size, ind)
    ELSE ind

best_fit(fs, size) == best_fit_loop(fs, size, 0, INT_MAX, -1)

RECURSIVE worst_fit_loop(_, _, _, _, _)
worst_fit_loop(fs, size, i, max_size, ind) ==
    IF i < fs.memory_size
    THEN IF fs.memory_map[i] = 0
         THEN LET j == ScanHole(fs, i)
              IN IF j >= i + size /\ j - i > max_size
                 THEN worst_fit_loop(fs, size, i + j, j - i, i)
                 ELSE worst_fit_loop(fs, size, i + j, max_size, ind)
         ELSE worst_fit_loop(fs, size, i + 1, max_size, ind)
    ELSE ind

worst_fit(fs, size) == worst_fit_loop(fs, size, 0, 0, -1)

\* next_fit yields the returned index and the value it leaves in start_index
RECURSIVE next_fit_loop(_, _, _, _)
next_fit_loop(fs, size, i, count) ==
    IF count < fs.memory_size
    THEN IF fs.memory_map[i] = 0
         THEN LET j == ScanBounded(fs, i, i + size)
              IN IF j = i + size
                 THEN [index |-> i, start_index |-> (j + i) % fs.memory_size]
                 ELSE next_fit_loop(fs, size, (i + j) % fs.memory_size, count + j)
         ELSE next_fit_loop(fs, size, (i + 1) % fs.memory_size, count + 1)
    ELSE [index |-> -1, start_index |-> fs.start_index]

next_fit(fs, size) == next_fit_loop(fs, size, fs.start_index, 0)

\* get_index yields the index and the value of start_index afterwards
get_index(fs, size) ==
    IF fs.strategy = "FIRST_FIT"
    THEN [index |-> first_fit(fs, size), start_index |-> fs.start_index]
    ELSE IF fs.strategy = "BEST_FIT"
    THEN [index |-> best_fit(fs, size), start_index |-> fs.start_index]
    ELSE IF fs.strategy = "WORST_FIT"
    THEN [index |-> worst_fit(fs, size), start_index |-> fs.start_index]
    ELSE next_fit(fs, size)

\* ----- ContiguousFileSystem ---------------------------------------------------
\* constructor of ContiguousFileSystem<n>: memory_map all zero, file_map empty
CfsNew(n, alg) ==
    [memory_map |-> [i \in 0..(n-1) |-> 0],
     memory_size |-> n,
     file_map |-> [x \in {} |-> 0],
     start_index |-> 0,
     strategy |-> alg,
     used_memory |-> 0]

\* Every operation yields [fs, outcome, ret]: the object afterwards, how the
\* call ended, and the returned access count (0 for the void operations).
\* mutant: used_memory is counted before the result of the search is tested
Cfs_create_CountsBeforeTest(fs, filename, filesize) ==
    IF filename \in DOMAIN fs.file_map
    THEN [fs |-> fs, outcome |-> "DuplicateName", ret |-> 0]
    ELSE LET g == get_index(fs, filesize)
             start == g.index
         IN IF start = -1
            THEN [fs |-> [fs EXCEPT !.start_index = g.start_index,
                                    !.used_memory = @ + filesize],
                  outcome |-> "OutOfSpace", ret |-> 0]
            ELSE [fs |-> [fs EXCEPT
                            !.memory_map = SetBits(@, {start + i : i \in 0..(filesize-1)}),
                            !.start_index = g.start_index,
                            !.used_memory = @ + filesize,
                            !.file_map = Put(@, filename,
                                             [filesize |-> filesize, start_block |-> start])],
                  outcome |-> "ok", ret |-> 0]

Cfs_create(fs, filename, filesize) ==
    IF filename \in DOMAIN fs.file_map
    THEN [fs |-> fs, outcome |-> "DuplicateName", ret |-> 0]
    ELSE LET g == get_index(fs, filesize)
             start == g.index
         IN IF start = -1
            THEN [fs |-> [fs EXCEPT !.start_index = g.start_index],
                  outcome |-> "OutOfSpace", ret |-> 0]
            ELSE [fs |-> [fs EXCEPT
                            !.memory_map = SetBits(@, {start + i : i \in 0..(filesize-1)}),
                            !.start_index = g.start_index,
                            !.used_memory = @ + filesize,
                            !.file_map = Put(@, filename,
                                             [filesize |-> filesize, start_block |-> start])],
                  outcome |-> "ok", ret |-> 0]

Cfs_read(fs, filename, size, offset) ==
    IF filename \notin DOMAIN fs.file_map
    THEN [fs |-> fs, outcome |-> "NotFound", ret |-> 1]
    ELSE \* size = (size==-1) ? fp->filesize : size;
         LET sz == IF size = -1 THEN fs.file_map[filename].filesize ELSE size
         IN [fs |-> fs, outcome |-> "ok", ret |-> sz + 1]


\* the blocks read reports, in order ("Reading block ..."): the loop of read
RECURSIVE Cfs_read_loop(_, _, _, _, _)
Cfs_read_loop(fp, size, offset, i, blocks) ==
    IF i < fp.filesize /\ Len(blocks) < size
    THEN Cfs_read_loop(fp, size, offset, i + 1,
                       IF i >= offset THEN Append(blocks, fp.start_block + i) ELSE blocks)
    ELSE blocks

\* mutant: block offset itself is not read
Cfs_read_blocks_StrictOffset(fs, filename, size, offset) ==
    IF filename \notin DOMAIN fs.file_map
    THEN <<>>
    ELSE LET fp == fs.file_map[filename]
             sz == IF size = -1 THEN fp.filesize ELSE size
         IN Cfs_read_loop(fp, sz, offset + 1, 0, <<>>)

Cfs_read_blocks(fs, filename, size, offset) ==
    IF filename \notin DOMAIN fs.file_map
    THEN <<>>
    ELSE LET fp == fs.file_map[filename]
             sz == IF size = -1 THEN fp.filesize ELSE size
         IN Cfs_read_loop(fp, sz, offset, 0, <<>>)

\* the number of logical positions the loop of read visits (lines 96-102):
\* the local block_access is 1 plus this when the loop ends
RECURSIVE Cfs_read_visited(_, _, _, _, _)
Cfs_read_visited(fp, size, offset, i, read) ==
    IF i < fp.filesize /\ read < size
    THEN Cfs_read_visited(fp, size, offset, i + 1, IF i >= offset THEN read + 1 ELSE read)
    ELSE i

\* mutant: the reset loop stops one block early
Cfs_delete_file_OneShort(fs, filename) ==
    IF filename \notin DOMAIN fs.file_map
    THEN [fs |-> fs, outcome |-> "NotFound", ret |-> 0]
    ELSE LET fp == fs.file_map[filename]
         IN [fs |-> [fs EXCEPT
                       !.memory_map = ResetBits(@, {fp.start_block + i : i \in 0..(fp.filesize-2)}),
                       !.used_memory = @ - fp.filesize,
                       !.file_map = Erase(@, filename)],
             outcome |-> "ok", ret |-> 0]

Cfs_delete_file(fs, filename) ==
    IF filename \notin DOMAIN fs.file_map
    THEN [fs |-> fs, outcome |-> "NotFound", ret |-> 0]
    ELSE LET fp == fs.file_map[filename]
         IN [fs |-> [fs EXCEPT
                       !.memory_map = ResetBits(@, {fp.start_block + i : i \in 0..(fp.filesize-1)}),
                       !.used_memory = @ - fp.filesize,
                       !.file_map = Erase(@, filename)],
             outcome |-> "ok", ret |-> 0]

\* memory_map[pos] in write: bitset::operator[] is unchecked, a position
\* outside [0,N) reads whatever lies there, each position its own bit.  The
\* loop of write reads them in increasing order and stops at the first 1: oob
\* is the number of positions past the end that read 0 before one reads 1.
CfsBit(fs, pos, oob) ==
    IF pos < fs.memory_size THEN fs.memory_map[pos]
    ELSE IF pos - fs.memory_size < oob THEN 0 ELSE 1

\* for(available = 0; available < req; available++) if(memory_map[available+end] == 1) break;
RECURSIVE CfsAvailable(_, _, _, _, _)
CfsAvailable(fs, end, req, available, oob) ==
    IF available < req /\ CfsBit(fs, available + end, oob) # 1
    THEN CfsAvailable(fs, end, req, available + 1, oob)
    ELSE available

Cfs_write(fs, filename, size, offset, oob) ==
    IF filename \notin DOMAIN fs.file_map
    THEN [fs |-> fs, outcome |-> "NotFound", ret |-> 1]
    ELSE LET fp == fs.file_map[filename]
         IN IF size + offset > fp.filesize
            THEN LET req == size + offset - fp.filesize
                     end == fp.start_block + fp.filesize
                     available == CfsAvailable(fs, end, req, 0, oob)
                 IN IF available # req
                    THEN [fs |-> fs, outcome |-> "OutOfSpace", ret |-> 1]
                    ELSE IF end + req > fs.memory_size
                    THEN \* memory_map.set(pos) with pos >= N throws std::out_of_range,
                         \* after the positions below N have been set
                         [fs |-> [fs EXCEPT !.memory_map = SetBits(@, end..(fs.memory_size - 1))],
                          outcome |-> "out_of_range", ret |-> 0]
                    ELSE [fs |-> [fs EXCEPT
                                    !.memory_map = SetBits(@, end..(end + req - 1)),
                                    !.file_map[filename].filesize = @ + req,
                                    !.used_memory = @ + req],
                          outcome |-> "ok", ret |-> size + 1]
            ELSE [fs |-> fs, outcome |-> "ok", ret |-> size + 1]

\* ----- ModifiedContiguousFileSystem --------------------------------------------
\* A file is [filesize, start]; start is the chain of block{start_block, size}
\* nodes, as the sequence of the nodes reached from fp->start through next.
McfsNew(n, alg) ==
    [memory_map |-> [i \in 0..(n-1) |-> 0],
     memory_size |-> n,
     file_map |-> [x \in {} |-> 0],
     start_index |-> 0,
     strategy |-> alg,
     used_memory |-> 0]

\* mutant: create searches first-fit whatever the strategy of the object
Mcfs_create_FirstFitOnly(fs, filename, filesize) ==
    IF filename \in DOMAIN fs.file_map
    THEN [fs |-> fs, outcome |-> "DuplicateName", ret |-> 0]
    ELSE LET start == first_fit(fs, filesize)
         IN IF start = -1
            THEN [fs |-> fs, outcome |-> "OutOfSpace", ret |-> 0]
            ELSE [fs |-> [fs EXCEPT
                            !.memory_map = SetBits(@, {start + i : i \in 0..(filesize-1)}),
                            !.used_memory = @ + filesize,
                            !.file_map = Put(@, filename,
                                  [filesize |-> filesize,
                                   start |-> << [start_block |-> start, size |-> filesize] >>])],
                  outcome |-> "ok", ret |-> 0]

Mcfs_create(fs, filename, filesize) ==
    IF filename \in DOMAIN fs.file_map
    THEN [fs |-> fs, outcome |-> "DuplicateName", ret |-> 0]
    ELSE LET g == get_index(fs, filesize)
             start == g.index
         IN IF start = -1
            THEN [fs |-> [fs EXCEPT !.start_index = g.start_index],
                  outcome |-> "OutOfSpace", ret |-> 0]
            ELSE [fs |-> [fs EXCEPT
                            !.memory_map = SetBits(@, {start + i : i \in 0..(filesize-1)}),
                            !.start_index = g.start_index,
                            !.used_memory = @ + filesize,
                            !.file_map = Put(@, filename,
                                  [filesize |-> filesize,
                                   start |-> << [start_block |-> start, size |-> filesize] >>])],
                  outcome |-> "ok", ret |-> 0]

\* The chain walk of write (lines 847-867).  k is the position of b in the
\* chain (b is null when k > Len(chain)); last is the position of the node
\* `last` points to, 0 for nullptr.  events are the blocks reported written.
RECURSIVE Mcfs_write_walk(_, _, _, _, _, _, _, _)
Mcfs_write_walk(chain, size, offset, k, bno, written, events, lastk) ==
    IF k <= Len(chain) /\ written < size
    THEN LET b == chain[k]
         IN IF offset >= bno /\ offset < bno + b.size
            THEN LET wrt == offset - bno
                     cnt == IF b.size - wrt < size - written
                            THEN b.size - wrt ELSE size - written
                     w == written + cnt
                 IN Mcfs_write_walk(chain, size, offset + w, k + 1, bno + b.size, w,
                                    events \o [i \in 1..cnt |-> b.start_block + wrt + i - 1], k)
            ELSE Mcfs_write_walk(chain, size, offset, k + 1, bno + b.size, written, events, k)
    ELSE [written |-> written, events |-> events, last |-> lastk]

Mcfs_write(fs, filename, size, offset) ==
    IF filename \notin DOMAIN fs.file_map
    THEN [fs |-> fs, outcome |-> "NotFound", ret |-> 0]
    ELSE LET fp == fs.file_map[filename]
             walk == Mcfs_write_walk(fp.start, size, offset, 1, 0, 0, <<>>, 0)
         IN IF size + offset > fp.filesize
            THEN LET req == size + offset - fp.filesize
                     g == get_index(fs, req)
                     index == g.index
                 IN IF index = -1
                    THEN \* the blocks are marked before index is tested:
                         \* memory_map.set(0 + -1) throws std::out_of_range
                         [fs |-> [fs EXCEPT !.start_index = g.start_index],
                          outcome |-> "out_of_range", ret |-> 0]
                    ELSE LET marked == [fs EXCEPT
                                 !.memory_map = SetBits(@, index..(index + req - 1)),
                                 !.start_index = g.start_index,
                                 !.file_map[filename].filesize = @ + req,
                                 !.used_memory = @ + req]
                         IN IF walk.last = 0
                            THEN \* last->next = newblock with last == nullptr
                                 [fs |-> marked, outcome |-> "segfault", ret |-> 0]
                            ELSE [fs |-> [marked EXCEPT !.file_map[filename].start =
                                       \* last->next = newblock
                                       SubSeq(@, 1, walk.last)
                                          \o << [start_block |-> index, size |-> req] >>],
                                  outcome |-> "ok", ret |-> size + 1]
            ELSE [fs |-> fs, outcome |-> "ok", ret |-> size + 1]

\* The blocks write reports ("Writing block"), in order, when it returns
\* normally: those of the chain walk (lines 851-867), then every block of the
\* overflow run (lines 869-876).
Mcfs_write_blocks(fs, filename, size, offset) ==
    LET fp == fs.file_map[filename]
        walk == Mcfs_write_walk(fp.start, size, offset, 1, 0, 0, <<>>, 0)
    IN IF size + offset > fp.filesize
       THEN LET req == size + offset - fp.filesize
                index == get_index(fs, req).index
            IN walk.events \o [i \in 1..req |-> index + i - 1]
       ELSE walk.events

Mcfs_read(fs, filename, size, offset) ==
    IF filename \notin DOMAIN fs.file_map
    THEN [fs |-> fs, outcome |-> "NotFound", ret |-> 1]
    ELSE \* size = (size==-1) ? fp->filesize : size;
         LET sz == IF size = -1 THEN fs.file_map[filename].filesize ELSE size
         IN [fs |-> fs, outcome |-> "ok", ret |-> sz + 1]


\* the chain walk of read: k is the position of b in the chain, blocks are the
\* blocks reported read so far (read is their number)
RECURSIVE Mcfs_read_walk(_, _, _, _, _, _)
Mcfs_read_walk(chain, size, offset, k, bno, blocks) ==
    IF k <= Len(chain) /\ Len(blocks) < size
    THEN LET b == chain[k]
         IN IF offset >= bno /\ offset < bno + b.size
            THEN LET rd == offset - bno
                     cnt == IF b.size - rd < size - Len(blocks)
                            THEN b.size - rd ELSE size - Len(blocks)
                     now == blocks \o [i \in 1..cnt |-> b.start_block + rd + i - 1]
                 IN Mcfs_read_walk(chain, size, offset + Len(now), k + 1, bno + b.size, now)
            ELSE Mcfs_read_walk(chain, size, offset, k + 1, bno + b.size, blocks)
    ELSE blocks

Mcfs_read_blocks(fs, filename, size, offset) ==
    IF filename \notin DOMAIN fs.file_map
    THEN <<>>
    ELSE LET fp == fs.file_map[filename]
             sz == IF size = -1 THEN fp.filesize ELSE size
         IN Mcfs_read_walk(fp.start, sz, offset, 1, 0, <<>>)

\* the blocks of all the runs of a chain
RunBlocks(chain) ==
    UNION { {chain[k].start_block + i : i \in 0..(chain[k].size - 1)} : k \in 1..Len(chain) }

Mcfs_delete_file(fs, filename) ==
    IF filename \notin DOMAIN fs.file_map
    THEN [fs |-> fs, outcome |-> "NotFound", ret |-> 0]
    ELSE LET fp == fs.file_map[filename]
         IN [fs |-> [fs EXCEPT
                       !.memory_map = ResetBits(@, RunBlocks(fp.start)),
                       !.used_memory = @ - fp.filesize,
                       !.file_map = Erase(@, filename)],
             outcome |-> "ok", ret |-> 0]

\* ----- LinkedFileSystem ---------------------------------------------------------
\* free_list is the list of free blocks, by id, front first.  A file is
\* [filesize, start_block]; start_block is the chain of blocks reached from
\* fp->start_block through next, by id.
LfsNew(n) ==
    [free_list |-> [i \in 1..n |-> i - 1],
     file_map |-> [x \in {} |-> 0],
     used_memory |-> 0]

Lfs_create(fs, filename, size) ==
    IF filename \in DOMAIN fs.file_map
    THEN [fs |-> fs, outcome |-> "DuplicateName", ret |-> 0]
    ELSE IF Len(fs.free_list) < size
    THEN [fs |-> fs, outcome |-> "OutOfSpace", ret |-> 0]
    ELSE IF fs.free_list = <<>>
    THEN \* free_list.front(); free_list.pop_front(); on an empty list
         [fs |-> fs, outcome |-> "segfault", ret |-> 0]
    ELSE LET \* one block is taken before the loop, size-1 blocks in the loop
             taken == 1 + (IF size > 1 THEN size - 1 ELSE 0)
         IN [fs |-> [fs EXCEPT
                       !.free_list = SubSeq(@, taken + 1, Len(@)),
                       !.used_memory = @ + size,
                       !.file_map = Put(@, filename,
                             [filesize |-> size,
                              start_block |-> SubSeq(fs.free_list, 1, taken)])],
             outcome |-> "ok", ret |-> 0]

\* while(start != nullptr && read < size): pos is the position of start in the chain
RECURSIVE Lfs_read_loop(_, _, _, _, _, _)
Lfs_read_loop(chain, size, offset, pos, read, block_access) ==
    IF pos <= Len(chain) /\ read < size
    THEN Lfs_read_loop(chain, size, offset, pos + 1,
                       IF pos - 1 >= offset THEN read + 1 ELSE read,
                       block_access + 1)
    ELSE block_access

Lfs_read(fs, filename, size, offset) ==
    IF filename \notin DOMAIN fs.file_map
    THEN [fs |-> fs, outcome |-> "NotFound", ret |-> 1]
    ELSE [fs |-> fs, outcome |-> "ok",
          ret |-> Lfs_read_loop(fs.file_map[filename].start_block, size, offset, 1, 0, 1)]


\* the blocks read reports, in order: pos is the position of start in the chain
RECURSIVE Lfs_read_blocks_loop(_, _, _, _, _)
Lfs_read_blocks_loop(chain, size, offset, pos, blocks) ==
    IF pos <= Len(chain) /\ Len(blocks) < size
    THEN Lfs_read_blocks_loop(chain, size, offset, pos + 1,
                              IF pos - 1 >= offset THEN Append(blocks, chain[pos]) ELSE blocks)
    ELSE blocks

Lfs_read_blocks(fs, filename, size, offset) ==
    IF filename \notin DOMAIN fs.file_map
    THEN <<>>
    ELSE Lfs_read_blocks_loop(fs.file_map[filename].start_block, size, offset, 1, <<>>)

\* while(written != size) of write.  w is [chain, free_list, filesize,
\* used_memory, bno, written, block_access, fault]; curr is the node at
\* position bno+1 of the chain, null when the chain is shorter.
RECURSIVE Lfs_write_loop(_, _, _)
Lfs_write_loop(w, size, offset) ==
    IF w.written # size /\ ~w.fault
    THEN IF w.bno + 1 > Len(w.chain)
         THEN IF w.free_list = <<>> \/ w.chain = <<>>
              THEN [w EXCEPT !.fault = TRUE]
              ELSE Lfs_write_loop(
                     [w EXCEPT !.chain = Append(@, Head(w.free_list)),
                               !.free_list = Tail(@),
                               !.filesize = @ + 1,
                               !.used_memory = @ + 1,
                               !.written = IF w.bno >= offset THEN @ + 1 ELSE @,
                               !.bno = @ + 1,
                               !.block_access = @ + 1],
                     size, offset)
         ELSE Lfs_write_loop(
                [w EXCEPT !.written = IF w.bno >= offset THEN @ + 1 ELSE @,
                          !.bno = @ + 1,
                          !.block_access = @ + 1],
                size, offset)
    ELSE w

\* mutant: the space test is off by one
Lfs_write_OffByOne(fs, filename, size, offset) ==
    IF filename \notin DOMAIN fs.file_map
    THEN [fs |-> fs, outcome |-> "NotFound", ret |-> 1]
    ELSE LET fp == fs.file_map[filename]
         IN IF offset + size > fp.filesize /\ offset + size - fp.filesize > Len(fs.free_list) + 1
            THEN [fs |-> fs, outcome |-> "OutOfSpace", ret |-> 1]
            ELSE LET w == Lfs_write_loop(
                            [chain |-> fp.start_block, free_list |-> fs.free_list,
                             filesize |-> fp.filesize, used_memory |-> fs.used_memory,
                             bno |-> 0, written |-> 0, block_access |-> 1, fault |-> FALSE],
                            size, offset)
                     after == [fs EXCEPT
                                 !.free_list = w.free_list,
                                 !.used_memory = w.used_memory,
                                 !.file_map[filename] =
                                     [filesize |-> w.filesize, start_block |-> w.chain]]
                 IN IF w.fault
                    THEN [fs |-> after, outcome |-> "segfault", ret |-> 0]
                    ELSE [fs |-> after, outcome |-> "ok", ret |-> w.block_access]

Lfs_write(fs, filename, size, offset) ==
    IF filename \notin DOMAIN fs.file_map
    THEN [fs |-> fs, outcome |-> "NotFound", ret |-> 1]
    ELSE LET fp == fs.file_map[filename]
         IN IF offset + size > fp.filesize /\ offset + size - fp.filesize > Len(fs.free_list)
            THEN [fs |-> fs, outcome |-> "OutOfSpace", ret |-> 1]
            ELSE LET w == Lfs_write_loop(
                            [chain |-> fp.start_block, free_list |-> fs.free_list,
                             filesize |-> fp.filesize, used_memory |-> fs.used_memory,
                             bno |-> 0, written |-> 0, block_access |-> 1, fault |-> FALSE],
                            size, offset)
                     after == [fs EXCEPT
                                 !.free_list = w.free_list,
                                 !.used_memory = w.used_memory,
                                 !.file_map[filename] =
                                     [filesize |-> w.filesize, start_block |-> w.chain]]
                 IN IF w.fault
                    THEN [fs |-> after, outcome |-> "segfault", ret |-> 0]
                    ELSE [fs |-> after, outcome |-> "ok", ret |-> w.block_access]

\* The blocks write reports ("writing block"), in order: the loop of write
\* (lines 494-517) with the chain and the free list as it changes them.
RECURSIVE Lfs_write_blocks_loop(_, _, _, _, _, _)
Lfs_write_blocks_loop(chain, free_list, size, offset, bno, blocks) ==
    IF Len(blocks) # size
    THEN IF bno + 1 > Len(chain)
         THEN IF free_list = <<>> \/ chain = <<>>
              THEN blocks
              ELSE Lfs_write_blocks_loop(
                      Append(chain, Head(free_list)), Tail(free_list), size, offset, bno + 1,
                      IF bno >= offset THEN Append(blocks, Head(free_list)) ELSE blocks)
         ELSE Lfs_write_blocks_loop(
                 chain, free_list, size, offset, bno + 1,
                 IF bno >= offset THEN Append(blocks, chain[bno + 1]) ELSE blocks)
    ELSE blocks

\* mutant: every node from the head on is written, whatever the offset
Lfs_write_blocks_FromHead(fs, filename, size, offset) ==
    IF Lfs_write(fs, filename, size, offset).outcome # "ok"
    THEN <<>>
    ELSE Lfs_write_blocks_loop(fs.file_map[filename].start_block, fs.free_list,
                               size, 0, 0, <<>>)

Lfs_write_blocks(fs, filename, size, offset) ==
    IF Lfs_write(fs, filename, size, offset).outcome # "ok"
    THEN <<>>
    ELSE Lfs_write_blocks_loop(fs.file_map[filename].start_block, fs.free_list,
                               size, offset, 0, <<>>)

\* mutant: the blocks of the chain are not put back on the free list
Lfs_delete_file_Leaks(fs, filename) ==
    IF filename \notin DOMAIN fs.file_map
    THEN [fs |-> fs, outcome |-> "NotFound", ret |-> 0]
    ELSE LET fp == fs.file_map[filename]
         IN [fs |-> [fs EXCEPT
                       !.used_memory = @ - fp.filesize,
                       !.file_map = Erase(@, filename)],
             outcome |-> "ok", ret |-> 0]

Lfs_delete_file(fs, filename) ==
    IF filename \notin DOMAIN fs.file_map
    THEN [fs |-> fs, outcome |-> "NotFound", ret |-> 0]
    ELSE LET fp == fs.file_map[filename]
         IN [fs |-> [fs EXCEPT
                       !.free_list = @ \o fp.start_block,
                       !.used_memory = @ - fp.filesize,
                       !.file_map = Erase(@, filename)],
             outcome |-> "ok", ret |-> 0]

\* ----- IndexedFileSystem --------------------------------------------------------
\* free_list is the list of free block ids, front first.  A file is
\* [filesize, block_indices].
IfsNew(n) ==
    [free_list |-> [i \in 1..n |-> i - 1],
     file_map |-> [x \in {} |-> 0],
     used_memory |-> 0]

\* The closing message of create prints fp->block_indices[0]; for size 0 the
\* vector is empty and was never allocated, so this reads through a null
\* pointer.  ub is what that read does: "fault" (the process is killed) or
\* "garbage" (some value is printed and create returns).
Ifs_create(fs, filename, size, ub) ==
    IF filename \in DOMAIN fs.file_map
    THEN [fs |-> fs, outcome |-> "DuplicateName", ret |-> 0]
    ELSE IF Len(fs.free_list) < size
    THEN [fs |-> fs, outcome |-> "OutOfSpace", ret |-> 0]
    ELSE LET after == [fs EXCEPT
                         !.free_list = SubSeq(@, size + 1, Len(@)),
                         !.used_memory = @ + size,
                         !.file_map = Put(@, filename,
                               [filesize |-> size,
                                block_indices |-> SubSeq(fs.free_list, 1, size)])]
         IN IF size = 0 /\ ub = "fault"
            THEN [fs |-> after, outcome |-> "segfault", ret |-> 0]
            ELSE [fs |-> after, outcome |-> "ok", ret |-> 0]

\* for(int i = offset; i < fp->filesize && read < size; i++)
RECURSIVE Ifs_read_loop(_, _, _, _, _)
Ifs_read_loop(filesize, size, i, read, block_access) ==
    IF i < filesize /\ read < size
    THEN Ifs_read_loop(filesize, size, i + 1, read + 1, block_access + 1)
    ELSE block_access

Ifs_read(fs, filename, size, offset) ==
    IF filename \notin DOMAIN fs.file_map
    THEN [fs |-> fs, outcome |-> "NotFound", ret |-> 1]
    ELSE \* size = (size == -1) ? fp->filesize : size;
         LET fp == fs.file_map[filename]
             sz == IF size = -1 THEN fp.filesize ELSE size
         IN [fs |-> fs, outcome |-> "ok",
             ret |-> Ifs_read_loop(fp.filesize, sz, offset, 0, 1)]


\* the blocks read reports, in order: block_indices[i] for i from offset
RECURSIVE Ifs_read_blocks_loop(_, _, _, _)
Ifs_read_blocks_loop(fp, size, i, blocks) ==
    IF i < fp.filesize /\ Len(blocks) < size
    THEN Ifs_read_blocks_loop(fp, size, i + 1,
                              Append(blocks, IF i < Len(fp.block_indices)
                                             THEN fp.block_indices[i + 1]
                                             ELSE -1))
    ELSE blocks

Ifs_read_blocks(fs, filename, size, offset) ==
    IF filename \notin DOMAIN fs.file_map
    THEN <<>>
    ELSE LET fp == fs.file_map[filename]
             sz == IF size = -1 THEN fp.filesize ELSE size
         IN Ifs_read_blocks_loop(fp, sz, offset, <<>>)

\* while(written < size) of write.  w is [block_indices, free_list, filesize,
\* used_memory, bno, written, block_access, fault].
RECURSIVE Ifs_write_loop(_, _)
Ifs_write_loop(w, size) ==
    IF w.written < size /\ ~w.fault
    THEN IF w.bno >= Len(w.block_indices)
         THEN IF w.free_list = <<>>
              THEN [w EXCEPT !.fault = TRUE]
              ELSE Ifs_write_loop(
                     [w EXCEPT !.block_indices = Append(@, Head(w.free_list)),
                               !.free_list = Tail(@),
                               !.filesize = @ + 1,
                               !.used_memory = @ + 1,
                               !.block_access = @ + 1,
                               !.written = @ + 1,
                               !.bno = @ + 1],
                     size)
         ELSE Ifs_write_loop(
                [w EXCEPT !.block_access = @ + 1,
                          !.written = @ + 1,
                          !.bno = @ + 1],
                size)
    ELSE w

Ifs_write(fs, filename, size, offset) ==
    IF filename \notin DOMAIN fs.file_map
    THEN [fs |-> fs, outcome |-> "NotFound", ret |-> 1]
    ELSE LET fp == fs.file_map[filename]
         IN IF offset + size > fp.filesize /\ offset + size - fp.filesize > Len(fs.free_list)
            THEN [fs |-> fs, outcome |-> "OutOfSpace", ret |-> 1]
            ELSE LET w == Ifs_write_loop(
                            [block_indices |-> fp.block_indices, free_list |-> fs.free_list,
                             filesize |-> fp.filesize, used_memory |-> fs.used_memory,
                             bno |-> offset, written |-> 0, block_access |-> 1,
                             fault |-> FALSE],
                            size)
                     after == [fs EXCEPT
                                 !.free_list = w.free_list,
                                 !.used_memory = w.used_memory,
                                 !.file_map[filename] =
                                     [filesize |-> w.filesize,
                                      block_indices |-> w.block_indices]]
                 IN IF w.fault
                    THEN [fs |-> after, outcome |-> "segfault", ret |-> 0]
                    ELSE [fs |-> after, outcome |-> "ok", ret |-> w.block_access]

\* mutant: push_front instead of push_back
Ifs_delete_file_PushFront(fs, filename) ==
    IF filename \notin DOMAIN fs.file_map
    THEN [fs |-> fs, outcome |-> "NotFound", ret |-> 0]
    ELSE LET fp == fs.file_map[filename]
             k == Len(fp.block_indices)
         IN [fs |-> [fs EXCEPT
                       !.free_list = [i \in 1..k |-> fp.block_indices[k + 1 - i]] \o @,
                       !.used_memory = @ - fp.filesize,
                       !.file_map = Erase(@, filename)],
             outcome |-> "ok", ret |-> 0]

Ifs_delete_file(fs, filename) ==
    IF filename \notin DOMAIN fs.file_map
    THEN [fs |-> fs, outcome |-> "NotFound", ret |-> 0]
    ELSE LET fp == fs.file_map[filename]
         IN [fs |-> [fs EXCEPT
                       !.free_list = @ \o fp.block_indices,
                       !.used_memory = @ - fp.filesize,
                       !.file_map = Erase(@, filename)],
             outcome |-> "ok", ret |-> 0]

\* ----- get_storage_efficiency ----------------------------------------------------
\* (float)used_memory/N, kept as the fraction num/den
Cfs_get_storage_efficiency(fs) == [num |-> fs.used_memory, den |-> fs.memory_size]

Lfs_get_storage_efficiency(fs) == [num |-> fs.used_memory, den |-> N]

Ifs_get_storage_efficiency(fs) == [num |-> fs.used_memory, den |-> N]

\* sum of the sizes of the live files of an object, set bits of a BlockMap
SumOfSizes(fs) == SumOver(DOMAIN fs.file_map, [n \in DOMAIN fs.file_map |-> fs.file_map[n].filesize])
PopCount(memory_map) == SumOver(DOMAIN memory_map, memory_map)

\* ----- the command loop of main ----------------------------------------------------
NoSnap == [valid |-> FALSE, memory_map |-> [i \in 0..(N-1) |-> 0], free_list |-> <<>>,
           taken |-> 0]

\* BlockMap (cfs, mcfs) or free list (lfs, ifs) of the instance in use
Resource ==
    [valid |-> TRUE,
     memory_map |-> IF engine = "cfs" THEN cfs.memory_map
                    ELSE IF engine = "mcfs" THEN mcfs.memory_map
                    ELSE NoSnap.memory_map,
     free_list |-> IF engine = "lfs" THEN lfs.free_list
                   ELSE IF engine = "ifs" THEN ifs.free_list
                   ELSE NoSnap.free_list]

\* the process runs until an operation ends in a fault
Running == last.outcome \notin Faults

\* bookkeeping of one processed command whose result is r; the name is kept for
\* the commands that change the set of live files
Record(op, name, r) ==
    /\ last' = [op |-> op,
                name |-> IF op \in {"create", "delete"} THEN name ELSE "",
                outcome |-> r.outcome]
    /\ snap' = IF op = "create" /\ r.outcome = "ok"
               THEN [valid |-> TRUE,
                     memory_map |-> Resource.memory_map,
                     free_list |-> Resource.free_list,
                     \* the number of ids the create took off the free list
                     taken |-> IF engine \in {"lfs", "ifs"}
                               THEN Len(Resource.free_list) - Len(r.fs.free_list)
                               ELSE 0]
               ELSE IF /\ op = "delete" /\ r.outcome = "ok"
                       /\ last.op = "create" /\ last.outcome = "ok" /\ last.name = name
               THEN snap
               ELSE NoSnap

Init ==
    /\ engine \in Engines
    /\ \E alg \in Strategies :
          /\ cfs = CfsNew(N, IF engine = "cfs" THEN alg ELSE "BEST_FIT")
          /\ mcfs = McfsNew(N, IF engine = "mcfs" THEN alg ELSE "FIRST_FIT")
    /\ lfs = LfsNew(N)
    /\ ifs = IfsNew(N)
    /\ last = [op |-> "none", name |-> "", outcome |-> "ok"]
    /\ snap = NoSnap

CfsCreate ==
    /\ engine = "cfs" /\ Running
    /\ \E name \in Names, size \in Sizes :
          LET r == Cfs_create(cfs, name, size)
          IN cfs' = r.fs /\ Record("create", name, r)
    /\ UNCHANGED <<engine, mcfs, lfs, ifs>>

CfsRead ==
    /\ engine = "cfs" /\ Running
    /\ \E name \in Names, size \in ReadSizes, offset \in Offsets :
          LET r == Cfs_read(cfs, name, size, offset)
          IN cfs' = r.fs /\ Record("read", name, r)
    /\ UNCHANGED <<engine, mcfs, lfs, ifs>>

CfsWrite ==
    /\ engine = "cfs" /\ Running
    /\ \E name \in Names, size \in Sizes, offset \in Offsets, oob \in OobReads :
          LET r == Cfs_write(cfs, name, size, offset, oob)
          IN cfs' = r.fs /\ Record("write", name, r)
    /\ UNCHANGED <<engine, mcfs, lfs, ifs>>

CfsDelete ==
    /\ engine = "cfs" /\ Running
    /\ \E name \in Names :
          LET r == Cfs_delete_file(cfs, name)
          IN cfs' = r.fs /\ Record("delete", name, r)
    /\ UNCHANGED <<engine, mcfs, lfs, ifs>>

McfsCreate ==
    /\ engine = "mcfs" /\ Running
    /\ \E name \in Names, size \in Sizes :
          LET r == Mcfs_create(mcfs, name, size)
          IN mcfs' = r.fs /\ Record("create", name, r)
    /\ UNCHANGED <<engine, cfs, lfs, ifs>>

McfsRead ==
    /\ engine = "mcfs" /\ Running
    /\ \E name \in Names, size \in ReadSizes, offset \in Offsets :
          LET r == Mcfs_read(mcfs, name, size, offset)
          IN mcfs' = r.fs /\ Record("read", name, r)
    /\ UNCHANGED <<engine, cfs, lfs, ifs>>

McfsWrite ==
    /\ engine = "mcfs" /\ Running
    /\ \E name \in Names, size \in Sizes, offset \in Offsets :
          LET r == Mcfs_write(mcfs, name, size, offset)
          IN mcfs' = r.fs /\ Record("write", name, r)
    /\ UNCHANGED <<engine, cfs, lfs, ifs>>

McfsDelete ==
    /\ engine = "mcfs" /\ Running
    /\ \E name \in Names :
          LET r == Mcfs_delete_file(mcfs, name)
          IN mcfs' = r.fs /\ Record("delete", name, r)
    /\ UNCHANGED <<engine, cfs, lfs, ifs>>

LfsCreate ==
    /\ engine = "lfs" /\ Running
    /\ \E name \in Names, size \in Sizes :
          LET r == Lfs_create(lfs, name, size)
          IN lfs' = r.fs /\ Record("create", name, r)
    /\ UNCHANGED <<engine, cfs, mcfs, ifs>>

LfsRead ==
    /\ engine = "lfs" /\ Running
    /\ \E name \in Names, size \in ReadSizes, offset \in Offsets :
          LET r == Lfs_read(lfs, name, size, offset)
          IN lfs' = r.fs /\ Record("read", name, r)
    /\ UNCHANGED <<engine, cfs, mcfs, ifs>>

LfsWrite ==
    /\ engine = "lfs" /\ Running
    /\ \E name \in Names, size \in Sizes, offset \in Offsets :
          LET r == Lfs_write(lfs, name, size, offset)
          IN lfs' = r.fs /\ Record("write", name, r)
    /\ UNCHANGED <<engine, cfs, mcfs, ifs>>

LfsDelete ==
    /\ engine = "lfs" /\ Running
    /\ \E name \in Names :
          LET r == Lfs_delete_file(lfs, name)
          IN lfs' = r.fs /\ Record("delete", name, r)
    /\ UNCHANGED <<engine, cfs, mcfs, ifs>>

IfsCreate ==
    /\ engine = "ifs" /\ Running
    /\ \E name \in Names, size \in Sizes, ub \in {"fault", "garbage"} :
          LET r == Ifs_create(ifs, name, size, ub)
          IN ifs' = r.fs /\ Record("create", name, r)
    /\ UNCHANGED <<engine, cfs, mcfs, lfs>>

IfsRead ==
    /\ engine = "ifs" /\ Running
    /\ \E name \in Names, size \in ReadSizes, offset \in Offsets :
          LET r == Ifs_read(ifs, name, size, offset)
          IN ifs' = r.fs /\ Record("read", name, r)
    /\ UNCHANGED <<engine, cfs, mcfs, lfs>>

IfsWrite ==
    /\ engine = "ifs" /\ Running
    /\ \E name \in Names, size \in Sizes, offset \in Offsets :
          LET r == Ifs_write(ifs, name, size, offset)
          IN ifs' = r.fs /\ Record("write", name, r)
    /\ UNCHANGED <<engine, cfs, mcfs, lfs>>

IfsDelete ==
    /\ engine = "ifs" /\ Running
    /\ \E name \in Names :
          LET r == Ifs_delete_file(ifs, name)
          IN ifs' = r.fs /\ Record("delete", name, r)
    /\ UNCHANGED <<engine, cfs, mcfs, lfs>>

Next ==
    \/ CfsCreate \/ CfsRead \/ CfsWrite \/ CfsDelete
    \/ McfsCreate \/ McfsRead \/ McfsWrite \/ McfsDelete
    \/ LfsCreate \/ LfsRead \/ LfsWrite \/ LfsDelete
    \/ IfsCreate \/ IfsRead \/ IfsWrite \/ IfsDelete

Spec == Init /\ [][Next]_vars

\* command streams of CREATE and DELETE_FILE only
NextCD ==
    \/ CfsCreate \/ CfsDelete
    \/ McfsCreate \/ McfsDelete
    \/ LfsCreate \/ LfsDelete
    \/ IfsCreate \/ IfsDelete

SpecCD == Init /\ [][NextCD]_vars

\* ----- the hole searches on a device of SearchN blocks ---------------------
\* A contiguous instance is taken in any state of its BlockMap: every maximal
\* run of used blocks is the run of one live file (created in that place and
\* left behind by the deletes of its neighbours).  One create is then processed.

\* the block after the run of used blocks that starts at block i
UsedRunEnd(memory_map, i) ==
    CHOOSE j \in (i + 1)..(SearchN) :
        /\ \A k \in i..(j - 1) : memory_map[k] = 1
        /\ j = SearchN \/ memory_map[j] = 0

FilesOf(memory_map) ==
    LET starts == {i \in DOMAIN memory_map :
                      memory_map[i] = 1 /\ (i = 0 \/ memory_map[i - 1] = 0)}
    IN [f \in {ToString(i) : i \in starts} |->
           LET i == CHOOSE x \in starts : ToString(x) = f
           IN [filesize |-> UsedRunEnd(memory_map, i) - i, start_block |-> i]]

SearchInit ==
    /\ engine = "cfs"
    /\ \E memory_map \in [0..(SearchN - 1) -> {0, 1}], alg \in Strategies :
       \E start_index \in IF alg = "NEXT_FIT" THEN 0..(SearchN - 1) ELSE {0} :
          cfs = [CfsNew(SearchN, alg) EXCEPT
                    !.memory_map = memory_map,
                    !.start_index = start_index,
                    !.file_map = FilesOf(memory_map),
                    !.used_memory = PopCount(memory_map)]
    /\ mcfs = McfsNew(SearchN, "FIRST_FIT")
    /\ lfs = LfsNew(SearchN)
    /\ ifs = IfsNew(SearchN)
    /\ last = [op |-> "none", name |-> "", outcome |-> "ok"]
    /\ snap = NoSnap

\* CREATE new <size>: the search is called by create
SearchCreate ==
    /\ last.op = "none"
    /\ \E size \in 1..SearchN :
          LET r == Cfs_create(cfs, "new", size)
          IN cfs' = r.fs /\ Record("create", "new", r)
    /\ UNCHANGED <<engine, mcfs, lfs, ifs>>

SearchNext == SearchCreate

SpecSearch == SearchInit /\ [][SearchNext]_vars

\* ----- the contiguous and the modified-contiguous instance side by side ------
\* main hands every CREATE and DELETE_FILE to mcfs and then to cfs; here the
\* two are built with the same strategy and process the same commands.
LockInit ==
    /\ engine = "cfs+mcfs"
    /\ \E alg \in Strategies : cfs = CfsNew(N, alg)
    /\ \E alg \in Strategies : mcfs = McfsNew(N, alg)
    /\ lfs = LfsNew(N)
    /\ ifs = IfsNew(N)
    /\ last = [op |-> "none", name |-> "", outcome |-> "ok"]
    /\ snap = NoSnap

LockCreate ==
    /\ engine = "cfs+mcfs"
    /\ \E name \in Names, size \in Sizes :
          LET rm == Mcfs_create(mcfs, name, size)
              rc == Cfs_create(cfs, name, size)
          IN mcfs' = rm.fs /\ cfs' = rc.fs /\ Record("create", name, rm)
    /\ UNCHANGED <<engine, lfs, ifs>>

LockDelete ==
    /\ engine = "cfs+mcfs"
    /\ \E name \in Names :
          LET rm == Mcfs_delete_file(mcfs, name)
              rc == Cfs_delete_file(cfs, name)
          IN mcfs' = rm.fs /\ cfs' = rc.fs /\ Record("delete", name, rm)
    /\ UNCHANGED <<engine, lfs, ifs>>

LockNext == LockCreate \/ LockDelete

SpecLock == LockInit /\ [][LockNext]_vars

\* ----- the modified-contiguous instance of main, with longer run chains --------
\* main builds mcfs with the default strategy (first-fit).
ChainSizes == 0..ChainMaxSize

ChainInit ==
    /\ engine = "mcfs"
    /\ cfs = CfsNew(N, "BEST_FIT")
    /\ mcfs = McfsNew(N, "FIRST_FIT")
    /\ lfs = LfsNew(N)
    /\ ifs = IfsNew(N)
    /\ last = [op |-> "none", name |-> "", outcome |-> "ok"]
    /\ snap = NoSnap

ChainCreate ==
    /\ Running
    /\ \E name \in Names, size \in ChainSizes :
          LET r == Mcfs_create(mcfs, name, size)
          IN mcfs' = r.fs /\ Record("create", name, r)
    /\ UNCHANGED <<engine, cfs, lfs, ifs>>

ChainRead ==
    /\ Running
    /\ \E name \in Names, size \in ChainSizes \cup {-1}, offset \in Offsets :
          LET r == Mcfs_read(mcfs, name, size, offset)
          IN mcfs' = r.fs /\ Record("read", name, r)
    /\ UNCHANGED <<engine, cfs, lfs, ifs>>

ChainWrite ==
    /\ Running
    /\ \E name \in Names, size \in ChainSizes, offset \in Offsets :
          LET r == Mcfs_write(mcfs, name, size, offset)
          IN mcfs' = r.fs /\ Record("write", name, r)
    /\ UNCHANGED <<engine, cfs, lfs, ifs>>

ChainDelete ==
    /\ Running
    /\ \E name \in Names :
          LET r == Mcfs_delete_file(mcfs, name)
          IN mcfs' = r.fs /\ Record("delete", name, r)
    /\ UNCHANGED <<engine, cfs, lfs, ifs>>

ChainNext == ChainCreate \/ ChainRead \/ ChainWrite \/ ChainDelete

SpecChain == ChainInit /\ [][ChainNext]_vars

\* ===== properties ====================================================================
\* the live names of the instance in use
Live ==
    IF engine = "cfs" THEN DOMAIN cfs.file_map
    ELSE IF engine = "mcfs" THEN DOMAIN mcfs.file_map
    ELSE IF engine = "lfs" THEN DOMAIN lfs.file_map
    ELSE DOMAIN ifs.file_map

\* the runs of the live files that contain block i: <<name>> for a contiguous
\* file, <<name, k>> for the k-th run of a modified-contiguous file
CfsOwners(i) ==
    { n \in DOMAIN cfs.file_map :
        /\ cfs.file_map[n].start_block <= i
        /\ i < cfs.file_map[n].start_block + cfs.file_map[n].filesize }

McfsOwners(i) ==
    { p \in UNION { {<<n, k>> : k \in 1..Len(mcfs.file_map[n].start)} :
                    n \in DOMAIN mcfs.file_map } :
        LET b == mcfs.file_map[p[1]].start[p[2]]
        IN b.start_block <= i /\ i < b.start_block + b.size }

\* C1: in the contiguous and modified-contiguous allocators, after any sequence
\* of create, write, read and delete calls, bit i of the BlockMap is set iff
\* block i lies in the run of exactly one live file, and no block lies in two
\* runs.
C1_BitIffOwnedOnce ==
    /\ engine = "cfs" =>
         \A i \in 0..(N-1) :
            /\ Cardinality(CfsOwners(i)) <= 1
            /\ (cfs.memory_map[i] = 1) <=> (Cardinality(CfsOwners(i)) = 1)
    /\ engine = "mcfs" =>
         \A i \in 0..(N-1) :
            /\ Cardinality(McfsOwners(i)) <= 1
            /\ (mcfs.memory_map[i] = 1) <=> (Cardinality(McfsOwners(i)) = 1)

\* number of positions of sequence s that hold x
Occurrences(s, x) == Cardinality({k \in 1..Len(s) : s[k] = x})

\* how often block id is referenced by the chains / index tables of the live files
LfsRefs(id) ==
    SumOver(DOMAIN lfs.file_map,
            [n \in DOMAIN lfs.file_map |-> Occurrences(lfs.file_map[n].start_block, id)])

IfsRefs(id) ==
    SumOver(DOMAIN ifs.file_map,
            [n \in DOMAIN ifs.file_map |-> Occurrences(ifs.file_map[n].block_indices, id)])

\* C2: in the linked and indexed allocators every block id of [0,N) is either
\* in the free queue exactly once or referenced exactly once by exactly one
\* live file, never both and never neither.
C2_FreeOrOwnedOnce ==
    /\ engine = "lfs" =>
         \A id \in 0..(N-1) : Occurrences(lfs.free_list, id) + LfsRefs(id) = 1
    /\ engine = "ifs" =>
         \A id \in 0..(N-1) : Occurrences(ifs.free_list, id) + IfsRefs(id) = 1

\* a linked file and an indexed file exist whose blocks were taken out of
\* order (after a delete put blocks back behind the others) and grown by write
C2_Witness ==
    \/ /\ engine = "lfs" /\ last.op = "write" /\ last.outcome = "ok"
       /\ \E n \in DOMAIN lfs.file_map :
             /\ Len(lfs.file_map[n].start_block) >= 2
             /\ lfs.file_map[n].start_block[1] > lfs.file_map[n].start_block[2]
       /\ Len(lfs.free_list) < N - 2
    \/ /\ engine = "ifs" /\ last.op = "write" /\ last.outcome = "ok"
       /\ \E n \in DOMAIN ifs.file_map :
             /\ Len(ifs.file_map[n].block_indices) >= 2
             /\ ifs.file_map[n].block_indices[1] > ifs.file_map[n].block_indices[2]
       /\ Len(ifs.free_list) < N - 2

\* C3: in the modified-contiguous allocator a write on a live file that needs
\* growth, for which the hole search finds no run of the growth length, fails
\* with OutOfSpace and leaves BlockMap, file size and run chain, used-block
\* counter and next-fit cursor as they were.
C3_McfsWriteNoHoleFails ==
    engine = "mcfs" =>
       \A n \in DOMAIN mcfs.file_map, size \in Sizes, offset \in Offsets :
          (/\ size + offset > mcfs.file_map[n].filesize
           /\ get_index(mcfs, size + offset - mcfs.file_map[n].filesize).index = -1)
          => LET r == Mcfs_write(mcfs, n, size, offset)
             IN r.outcome = "OutOfSpace" /\ r.fs = mcfs

\* block positions a contiguous file n needs to grow by g blocks
CfsGrowth(n, g) ==
    LET fp == cfs.file_map[n]
    IN (fp.start_block + fp.filesize)..(fp.start_block + fp.filesize + g - 1)

\* C4: in the contiguous allocator a write that needs growth g succeeds only if
\* the g blocks following the file all exist inside [0,N) and are free; in
\* every other case it fails with OutOfSpace and changes neither the BlockMap
\* nor the file's size.
C4_CfsWriteGrowsInPlaceOrFails ==
    engine = "cfs" =>
       \A n \in DOMAIN cfs.file_map, size \in Sizes, offset \in Offsets, oob \in OobReads :
          size + offset > cfs.file_map[n].filesize
          => LET g == size + offset - cfs.file_map[n].filesize
                 canGrow == \A i \in CfsGrowth(n, g) : i < N /\ cfs.memory_map[i] = 0
                 r == Cfs_write(cfs, n, size, offset, oob)
             IN /\ r.outcome = "ok" => canGrow
                /\ ~canGrow => /\ r.outcome = "OutOfSpace"
                               /\ r.fs.memory_map = cfs.memory_map
                               /\ r.fs.file_map[n].filesize = cfs.file_map[n].filesize

\* the four objects
Objects == <<cfs, mcfs, lfs, ifs>>

\* a hole search under NEXT_FIT failed after the cursor had moved off 0, or a
\* create was refused for a live name while another file exists
C5_Witness ==
    /\ last.op = "create"
    /\ \/ /\ last.outcome = "OutOfSpace" /\ engine = "mcfs"
          /\ mcfs.strategy = "NEXT_FIT" /\ mcfs.start_index # 0
          /\ mcfs.used_memory > 0
       \/ /\ last.outcome = "DuplicateName" /\ engine = "lfs"
          /\ Cardinality(DOMAIN lfs.file_map) = 2

\* C5: in all four allocators a create that fails (DuplicateName because the
\* name is live, or OutOfSpace) leaves BlockMap or free queue, registry, every
\* file's metadata, used-block counter and next-fit cursor as they were; a
\* create of a live name is such a failure.
C5_FailedCreateChangesNothing ==
    /\ [][(last'.op = "create" /\ last'.outcome \in {"DuplicateName", "OutOfSpace"})
            => Objects' = Objects]_vars
    /\ [](\A n \in Live, size \in Sizes :
            /\ engine = "cfs" => Cfs_create(cfs, n, size).outcome = "DuplicateName"
            /\ engine = "mcfs" => Mcfs_create(mcfs, n, size).outcome = "DuplicateName"
            /\ engine = "lfs" => Lfs_create(lfs, n, size).outcome = "DuplicateName"
            /\ engine = "ifs" =>
                 \A ub \in {"fault", "garbage"} :
                    Ifs_create(ifs, n, size, ub).outcome = "DuplicateName")

\* a write of the linked allocator was refused for lack of free blocks while
\* the queue was not empty
C6_Witness ==
    /\ engine = "lfs" /\ last.op = "write" /\ last.outcome = "OutOfSpace"
    /\ lfs.free_list # <<>>
    /\ \E n \in DOMAIN lfs.file_map, size \in Sizes, offset \in Offsets :
          /\ offset + size > lfs.file_map[n].filesize
          /\ offset + size - lfs.file_map[n].filesize > Len(lfs.free_list)

\* C6: in the linked and indexed allocators a write on a live file whose
\* growth offset+size-filesize exceeds the number of free ids fails with
\* OutOfSpace, and free queue, file size and chain/table are unchanged.
C6_WriteBeyondFreeFails ==
    /\ engine = "lfs" =>
         \A n \in DOMAIN lfs.file_map, size \in Sizes, offset \in Offsets :
            (/\ offset + size > lfs.file_map[n].filesize
             /\ offset + size - lfs.file_map[n].filesize > Len(lfs.free_list))
            => LET r == Lfs_write(lfs, n, size, offset)
               IN /\ r.outcome = "OutOfSpace"
                  /\ r.fs.free_list = lfs.free_list
                  /\ r.fs.file_map[n] = lfs.file_map[n]
    /\ engine = "ifs" =>
         \A n \in DOMAIN ifs.file_map, size \in Sizes, offset \in Offsets :
            (/\ offset + size > ifs.file_map[n].filesize
             /\ offset + size - ifs.file_map[n].filesize > Len(ifs.free_list))
            => LET r == Ifs_write(ifs, n, size, offset)
               IN /\ r.outcome = "OutOfSpace"
                  /\ r.fs.free_list = ifs.free_list
                  /\ r.fs.file_map[n] = ifs.file_map[n]

\* a delete left a hole in front of a live file
C7_Witness ==
    /\ last.op = "delete" /\ last.outcome = "ok"
    /\ \/ engine = "cfs" /\ cfs.memory_map[0] = 0 /\ PopCount(cfs.memory_map) > 0
       \/ engine = "mcfs" /\ mcfs.memory_map[0] = 0 /\ PopCount(mcfs.memory_map) > 0

\* C7: for the contiguous and modified-contiguous allocators under each of the
\* four strategies, after every prefix of a sequence of creates and deletes the
\* sum of the sizes of the live files equals the number of set BlockMap bits.
C7_SizesEqualPopCount ==
    /\ engine = "cfs" => SumOfSizes(cfs) = PopCount(cfs.memory_map)
    /\ engine = "mcfs" => SumOfSizes(mcfs) = PopCount(mcfs.memory_map)

\* C8: for the linked and indexed allocators, after every prefix of a sequence
\* of creates and deletes (sizes >= 0) the sum of the sizes of the live files
\* equals N minus the length of the free queue.
C8_SizesEqualUsedQueue ==
    /\ engine = "lfs" => SumOfSizes(lfs) = N - Len(lfs.free_list)
    /\ engine = "ifs" => SumOfSizes(ifs) = N - Len(ifs.free_list)

\* the delete processed last undid the create processed just before it
RoundTrip == last.op = "delete" /\ last.outcome = "ok" /\ snap.valid

\* C9 as stated: create(f,k) immediately followed by delete(f) leaves the
\* BlockMap, or the free queue as an ordered sequence, exactly as before the
\* create.
C9_RoundTripExact ==
    RoundTrip => /\ Resource.memory_map = snap.memory_map
                 /\ Resource.free_list = snap.free_list

\* sequence s with its first k elements moved to the back, in order
Rotate(s, k) == SubSeq(s, k + 1, Len(s)) \o SubSeq(s, 1, k)

\* C9 amended: create(f,k); delete(f) leaves the BlockMap exactly as before
\* the create; the free queue holds the same ids as before, rotated by the
\* number of ids the create took: those ids, which were at the front, are at
\* the back, in the same order, and the others have moved up in order.
C9_RoundTripRotates ==
    RoundTrip => /\ Resource.memory_map = snap.memory_map
                 /\ snap.taken \in 0..Len(snap.free_list)
                 /\ Resource.free_list = Rotate(snap.free_list, snap.taken)

\* a round trip on a device that already held another file
C9_Witness ==
    /\ RoundTrip
    /\ Live # {}
    /\ \/ engine \in {"cfs", "mcfs"} /\ PopCount(Resource.memory_map) > 0
       \/ /\ engine \in {"lfs", "ifs"}
          /\ snap.taken >= 1 /\ snap.taken < Len(snap.free_list)
          /\ Resource.free_list # snap.free_list

\* C10: a name becomes Live only by a successful create of that name,
\* and Absent only by a successful delete of that name; a successful create
\* makes its name Live, a successful delete makes it Absent; reads, writes and
\* failed creates and deletes change no name's status; an Absent name (never
\* created, or deleted) is not refused as a duplicate.
C10_Lifecycle ==
    /\ [][LET before == Live
              after == Live'
          IN /\ \A n \in after \ before :
                   /\ last'.op = "create" /\ last'.name = n
                   /\ last'.outcome = "ok"
             /\ \A n \in before \ after :
                   last'.op = "delete" /\ last'.name = n /\ last'.outcome = "ok"
             /\ (last'.op = "create" /\ last'.outcome = "ok") =>
                   last'.name \notin before /\ last'.name \in after
             /\ (last'.op = "delete" /\ last'.outcome = "ok") =>
                   last'.name \in before /\ last'.name \notin after
             /\ (last'.op \in {"read", "write"} \/ last'.outcome \in
                    {"DuplicateName", "OutOfSpace", "NotFound"}) =>
                   after = before]_vars
    /\ [](\A n \in Names \ Live, size \in Sizes :
            /\ engine = "cfs" => Cfs_create(cfs, n, size).outcome # "DuplicateName"
            /\ engine = "mcfs" => Mcfs_create(mcfs, n, size).outcome # "DuplicateName"
            /\ engine = "lfs" => Lfs_create(lfs, n, size).outcome # "DuplicateName"
            /\ engine = "ifs" =>
                 \A ub \in {"fault", "garbage"} :
                    Ifs_create(ifs, n, size, ub).outcome # "DuplicateName")

\* what read(n, size, offset) and write(n, size, offset) of the instance in use
\* yield in the current state (an out-of-range bit read by the contiguous
\* write may give either value)
ReadResult(n, size, offset) ==
    IF engine = "cfs" THEN Cfs_read(cfs, n, size, offset)
    ELSE IF engine = "mcfs" THEN Mcfs_read(mcfs, n, size, offset)
    ELSE IF engine = "lfs" THEN Lfs_read(lfs, n, size, offset)
    ELSE Ifs_read(ifs, n, size, offset)

WriteResults(n, size, offset) ==
    IF engine = "cfs" THEN {Cfs_write(cfs, n, size, offset, oob) : oob \in OobReads}
    ELSE IF engine = "mcfs" THEN {Mcfs_write(mcfs, n, size, offset)}
    ELSE IF engine = "lfs" THEN {Lfs_write(lfs, n, size, offset)}
    ELSE {Ifs_write(ifs, n, size, offset)}

\* C11: in all four allocators a read or write that does not execute (NotFound
\* because the name is absent, OutOfSpace on write growth) returns exactly the
\* sentinel access count 1.
C11_NotExecutedReturnsSentinel ==
    Running =>
    \A n \in Names, size \in Sizes, offset \in Offsets :
       /\ n \notin Live =>
             /\ ReadResult(n, size, offset).ret = 1
             /\ \A r \in WriteResults(n, size, offset) : r.ret = 1
       /\ \A r \in WriteResults(n, size, offset) :
             r.outcome \in {"NotFound", "OutOfSpace"} => r.ret = 1

\* C12: in all four allocators a read or write that executes successfully on a
\* live file, for any size >= 0 and offset >= 0, returns an access count
\* different from 1.
C12_ExecutedNeverReturnsSentinel ==
    Running =>
    \A n \in Live, size \in Sizes, offset \in Offsets :
       /\ ReadResult(n, size, offset).outcome = "ok" =>
             ReadResult(n, size, offset).ret # 1
       /\ \A r \in WriteResults(n, size, offset) : r.outcome = "ok" => r.ret # 1

\* ----- what the hole searches are to return ---------------------------------
\* size consecutive free blocks inside [0, memory_size) begin at block i
HoleAt(fs, i, size) ==
    /\ i + size <= fs.memory_size
    /\ \A k \in i..(i + size - 1) : fs.memory_map[k] = 0

Positions(fs) == 0..(fs.memory_size - 1)

\* a hole of length >= size exists
HoleExists(fs, size) == \E i \in Positions(fs) : HoleAt(fs, i, size)

\* the maximal free runs: their first blocks, and the length of the one at i
FreeRunStarts(fs) ==
    {i \in Positions(fs) : fs.memory_map[i] = 0 /\ (i = 0 \/ fs.memory_map[i - 1] = 1)}

FreeRunLength(fs, i) ==
    Cardinality({j \in i..(fs.memory_size - 1) : \A k \in i..j : fs.memory_map[k] = 0})

\* the lowest index at which a hole of length >= size begins, -1 if there is none
LowestHole(fs, size) ==
    IF HoleExists(fs, size)
    THEN CHOOSE i \in Positions(fs) :
            /\ HoleAt(fs, i, size)
            /\ \A k \in Positions(fs) : HoleAt(fs, k, size) => i <= k
    ELSE -1

\* the lowest-starting one of the smallest maximal free runs of length >= size
SmallestHole(fs, size) ==
    LET fit == {i \in FreeRunStarts(fs) : FreeRunLength(fs, i) >= size}
    IN IF fit = {} THEN -1
       ELSE CHOOSE i \in fit :
               \A k \in fit :
                  \/ FreeRunLength(fs, i) < FreeRunLength(fs, k)
                  \/ FreeRunLength(fs, i) = FreeRunLength(fs, k) /\ i <= k

\* the lowest-starting one of the largest maximal free runs of length >= size
LargestHole(fs, size) ==
    LET fit == {i \in FreeRunStarts(fs) : FreeRunLength(fs, i) >= size}
    IN IF fit = {} THEN -1
       ELSE CHOOSE i \in fit :
               \A k \in fit :
                  \/ FreeRunLength(fs, i) > FreeRunLength(fs, k)
                  \/ FreeRunLength(fs, i) = FreeRunLength(fs, k) /\ i <= k

\* the first position in the circular order c, c+1, ..., N-1, 0, ..., c-1 at
\* which a hole of length >= size begins, -1 if there is none
NextHole(fs, size) ==
    IF HoleExists(fs, size)
    THEN LET d == CHOOSE x \in Positions(fs) :
                     /\ HoleAt(fs, (fs.start_index + x) % fs.memory_size, size)
                     /\ \A y \in 0..(x - 1) :
                           ~HoleAt(fs, (fs.start_index + y) % fs.memory_size, size)
         IN (fs.start_index + d) % fs.memory_size
    ELSE -1

SearchSizes == 1..SearchN

\* C13: first-fit returns, for every BlockMap and every size >= 1, the lowest
\* index i such that blocks i..i+size-1 are all free, and not-found (-1) only
\* when no hole of length >= size exists.
C13_FirstFitLowestHole ==
    cfs.strategy = "FIRST_FIT" =>
       \A size \in SearchSizes : first_fit(cfs, size) = LowestHole(cfs, size)

\* C14: best-fit returns, for every BlockMap and every size >= 1, the start of
\* the smallest maximal free run of length >= size, the lowest-starting one
\* when several share that length, and not-found only when there is none.
C14_BestFitSmallestEarliest ==
    cfs.strategy = "BEST_FIT" =>
       \A size \in SearchSizes : best_fit(cfs, size) = SmallestHole(cfs, size)

\* C15: worst-fit returns, for every BlockMap and every size >= 1, the first
\* block of the largest maximal free run of length >= size, the
\* lowest-starting one when several share that length, and not-found only
\* when there is none.
C15_WorstFitLargestEarliest ==
    cfs.strategy = "WORST_FIT" =>
       \A size \in SearchSizes : worst_fit(cfs, size) = LargestHole(cfs, size)

\* C16: next-fit returns, for every BlockMap, cursor c and size >= 1, the
\* first position in the circular order from c at which size consecutive free
\* blocks inside [0,N) begin, and not-found only when there is none.
C16_NextFitCircular ==
    cfs.strategy = "NEXT_FIT" =>
       \A size \in SearchSizes : next_fit(cfs, size).index = NextHole(cfs, size)

\* C17: the cursor is 0 initially; a successful next-fit search that returns
\* s for a request of size k leaves the cursor at (s+k) mod N; a search that
\* returns not-found leaves the cursor unchanged.
C17_NextFitCursor ==
    /\ \A alg \in Strategies : CfsNew(SearchN, alg).start_index = 0
    /\ cfs.strategy = "NEXT_FIT" =>
          \A size \in SearchSizes :
             LET g == next_fit(cfs, size)
             IN IF g.index = -1
                THEN g.start_index = cfs.start_index
                ELSE g.start_index = (g.index + size) % cfs.memory_size

\* the size recorded for live file n of the instance in use, and of object fs
FileSize(n) ==
    IF engine = "cfs" THEN cfs.file_map[n].filesize
    ELSE IF engine = "mcfs" THEN mcfs.file_map[n].filesize
    ELSE IF engine = "lfs" THEN lfs.file_map[n].filesize
    ELSE ifs.file_map[n].filesize

Max(a, b) == IF a >= b THEN a ELSE b

\* C18: in every allocator, after a successful write(name, size, offset) on a
\* file of size s the file's size equals max(s, offset+size).
C18_WriteSizeIsMax ==
    Running =>
    \A n \in Live, size \in Sizes, offset \in Offsets :
       \A r \in WriteResults(n, size, offset) :
          r.outcome = "ok" =>
             r.fs.file_map[n].filesize = Max(FileSize(n), offset + size)

\* what create(n, size) of the instance in use yields in the current state
CreateResults(n, size) ==
    IF engine = "cfs" THEN {Cfs_create(cfs, n, size)}
    ELSE IF engine = "mcfs" THEN {Mcfs_create(mcfs, n, size)}
    ELSE IF engine = "lfs" THEN {Lfs_create(lfs, n, size)}
    ELSE {Ifs_create(ifs, n, size, ub) : ub \in {"fault", "garbage"}}

\* BlockMap or free list of an object of the kind in use
ResourceOf(fs) == IF engine \in {"cfs", "mcfs"} THEN fs.memory_map ELSE fs.free_list

\* C19: in every allocator and every reachable state (a completely full device
\* included) create(name, 0) with an unregistered name succeeds, registers a
\* live file of size 0, marks no BlockMap bit and removes no id from the free
\* queue.
C19_CreateZeroAlwaysSucceeds ==
    Running =>
    \A n \in Names \ Live :
       \A r \in CreateResults(n, 0) :
          /\ r.outcome = "ok"
          /\ n \in DOMAIN r.fs.file_map
          /\ r.fs.file_map[n].filesize = 0
          /\ ResourceOf(r.fs) = ResourceOf(Objects[IF engine = "cfs" THEN 1
                                                   ELSE IF engine = "mcfs" THEN 2
                                                   ELSE IF engine = "lfs" THEN 3 ELSE 4])

\* the blocks read(n, size, offset) of the instance in use reports
ReadBlocks(n, size, offset) ==
    IF engine = "cfs" THEN Cfs_read_blocks(cfs, n, size, offset)
    ELSE IF engine = "mcfs" THEN Mcfs_read_blocks(mcfs, n, size, offset)
    ELSE IF engine = "lfs" THEN Lfs_read_blocks(lfs, n, size, offset)
    ELSE Ifs_read_blocks(ifs, n, size, offset)

\* a file of two blocks or more, created behind another one, was read
C20_Witness ==
    /\ last.op = "read" /\ last.outcome = "ok"
    /\ Cardinality(Live) = 2
    /\ \E n \in Live :
          /\ FileSize(n) >= 2
          /\ ReadBlocks(n, FileSize(n), 0)[1] # 0
          /\ Len(ReadBlocks(n, FileSize(n), 0)) = FileSize(n)

\* C20: in every allocator read changes neither the BlockMap, the free queue,
\* the registry nor any file's metadata, and a read of k blocks from offset 0
\* on a file just created with size k reports exactly k blocks read.
C20_ReadChangesNothing ==
    /\ [][last'.op = "read" => Objects' = Objects]_vars
    /\ []((Running /\ last.op = "create" /\ last.outcome = "ok") =>
             /\ Len(ReadBlocks(last.name, FileSize(last.name), 0)) = FileSize(last.name)
             /\ \A size \in ReadSizes, offset \in Offsets :
                   ReadResult(last.name, size, offset).fs =
                      Objects[IF engine = "cfs" THEN 1 ELSE IF engine = "mcfs" THEN 2
                              ELSE IF engine = "lfs" THEN 3 ELSE 4])

\* get_storage_efficiency() of the instance in use, the blocks it holds in use
StorageEfficiency ==
    IF engine = "cfs" THEN Cfs_get_storage_efficiency(cfs)
    ELSE IF engine = "mcfs" THEN Cfs_get_storage_efficiency(mcfs)
    ELSE IF engine = "lfs" THEN Lfs_get_storage_efficiency(lfs)
    ELSE Ifs_get_storage_efficiency(ifs)

UsedBlocks ==
    IF engine = "cfs" THEN PopCount(cfs.memory_map)
    ELSE IF engine = "mcfs" THEN PopCount(mcfs.memory_map)
    ELSE IF engine = "lfs" THEN N - Len(lfs.free_list)
    ELSE N - Len(ifs.free_list)

\* C21: in every allocator, after any sequence of create, write and delete
\* calls, get_storage_efficiency() equals the number of blocks marked used in
\* the BlockMap (or N minus the length of the free queue) divided by N, and
\* the used-block counter stays within 0..N.
C21_EfficiencyIsUsedOverN ==
    Running =>
       /\ StorageEfficiency = [num |-> UsedBlocks, den |-> N]
       /\ StorageEfficiency.num \in 0..N

\* C22: for every reachable state and every command with size >= 0 and
\* offset >= 0 each allocator operation completes, with a result or a reported
\* error, without a runtime fault (no block index outside [0,N) marked, no
\* dequeue from an empty free queue, no missing chain node followed).
C22_NoRuntimeFault ==
    /\ last.outcome \notin Faults
    /\ \A n \in Names, size \in Sizes, offset \in Offsets :
          /\ \A r \in CreateResults(n, size) : r.outcome \notin Faults
          /\ ReadResult(n, size, offset).outcome \notin Faults
          /\ \A r \in WriteResults(n, size, offset) : r.outcome \notin Faults

\* under a strategy other than first-fit a file was created behind a hole that
\* a delete had left at the front of the device
C23_Witness ==
    /\ engine = "cfs+mcfs"
    /\ last.op = "create" /\ last.outcome = "ok"
    /\ mcfs.strategy = cfs.strategy
    /\ mcfs.strategy # "FIRST_FIT"
    /\ mcfs.memory_map[0] = 0
    /\ mcfs.file_map[last.name].filesize >= 1

\* C23: given the same strategy and the same sequence of create and delete
\* commands, the modified-contiguous and the contiguous allocator stay in
\* lock-step: same BlockMap, same live names, same outcome of every command,
\* and every live modified-contiguous file has a one-element run chain
\* (start, size) equal to the contiguous file's (start_block, size).
C23_LockStep ==
    mcfs.strategy = cfs.strategy =>
       /\ mcfs.memory_map = cfs.memory_map
       /\ DOMAIN mcfs.file_map = DOMAIN cfs.file_map
       /\ \A n \in DOMAIN cfs.file_map :
             /\ mcfs.file_map[n].filesize = cfs.file_map[n].filesize
             /\ mcfs.file_map[n].start =
                   << [start_block |-> cfs.file_map[n].start_block,
                       size |-> cfs.file_map[n].filesize] >>
       /\ \A n \in Names :
             /\ Mcfs_delete_file(mcfs, n).outcome = Cfs_delete_file(cfs, n).outcome
             /\ \A size \in Sizes :
                   Mcfs_create(mcfs, n, size).outcome = Cfs_create(cfs, n, size).outcome

\* sum of the run sizes of a run chain
ChainBlocks(chain) == SumOver(1..Len(chain), [k \in 1..Len(chain) |-> chain[k].size])

\* C24: after any sequence of create, write and delete calls each live file's
\* recorded size equals the number of blocks its metadata holds: the chain
\* length (linked), the index-table length (indexed), the sum of the run sizes
\* (modified contiguous), where every run lies inside [0,N) and a run added by
\* write growth is the last element of the chain.
C24_SizeIsBlocksHeld ==
    Running =>
       /\ engine = "lfs" =>
             \A n \in DOMAIN lfs.file_map :
                Len(lfs.file_map[n].start_block) = lfs.file_map[n].filesize
       /\ engine = "ifs" =>
             \A n \in DOMAIN ifs.file_map :
                Len(ifs.file_map[n].block_indices) = ifs.file_map[n].filesize
       /\ engine = "mcfs" =>
             \A n \in DOMAIN mcfs.file_map :
                LET fp == mcfs.file_map[n]
                IN /\ ChainBlocks(fp.start) = fp.filesize
                   /\ \A k \in 1..Len(fp.start) :
                         /\ fp.start[k].start_block >= 0
                         /\ fp.start[k].start_block + fp.start[k].size <= N
                   /\ \A size \in Sizes, offset \in Offsets :
                         LET r == Mcfs_write(mcfs, n, size, offset)
                             chain == r.fs.file_map[n].start
                         IN (r.outcome = "ok" /\ size + offset > fp.filesize) =>
                               /\ chain = fp.start \o << chain[Len(chain)] >>
                               /\ chain[Len(chain)].size = size + offset - fp.filesize

\* the blocks a run chain assigns to the logical positions 0, 1, ... of its file
RECURSIVE ChainLayout(_)
ChainLayout(chain) ==
    IF chain = <<>> THEN <<>>
    ELSE [i \in 1..Head(chain).size |-> Head(chain).start_block + i - 1]
            \o ChainLayout(Tail(chain))

Min(a, b) == IF a <= b THEN a ELSE b

\* C25: in the modified-contiguous allocator, for a live file whose run chain
\* has any number of runs and any offset < filesize, read(name, size, offset)
\* reports exactly min(size, filesize-offset) blocks, those of the logical
\* positions offset, offset+1, ... in increasing order.
C25_McfsReadAcrossRuns ==
    Running =>
       \A n \in DOMAIN mcfs.file_map, size \in ChainSizes, offset \in Offsets :
          LET fp == mcfs.file_map[n]
          IN offset < fp.filesize =>
                Mcfs_read_blocks(mcfs, n, size, offset) =
                   SubSeq(ChainLayout(fp.start), offset + 1,
                          offset + Min(size, fp.filesize - offset))

\* C26: in the modified-contiguous allocator a successful write(name, size,
\* offset) reports exactly size blocks, those of the logical positions
\* offset .. offset+size-1 of the (possibly grown) file in increasing order,
\* the blocks of the freshly grown run last; for any number of runs and for
\* offset below, at or beyond the old file size.
C26_McfsWriteWindow ==
    Running =>
       \A n \in DOMAIN mcfs.file_map, size \in ChainSizes, offset \in Offsets :
          LET r == Mcfs_write(mcfs, n, size, offset)
          IN r.outcome = "ok" =>
                Mcfs_write_blocks(mcfs, n, size, offset) =
                   SubSeq(ChainLayout(r.fs.file_map[n].start), offset + 1, offset + size)

\* C27: in the contiguous allocator read(name, size, offset) on a live file
\* reports exactly the blocks start_block+p of the logical positions
\* p = offset .. offset+min(size, filesize-offset)-1 in increasing order, and
\* the access count it returns is the number of logical positions the walk
\* visited plus one.
C27_CfsReadWindowAndCount ==
    Running =>
       \A n \in DOMAIN cfs.file_map, size \in Sizes, offset \in Offsets :
          LET fp == cfs.file_map[n]
              cnt == Min(size, fp.filesize - offset)
          IN /\ Cfs_read_blocks(cfs, n, size, offset) =
                   [i \in 1..cnt |-> fp.start_block + offset + i - 1]
             /\ Cfs_read(cfs, n, size, offset).ret =
                   Cfs_read_visited(fp, size, offset, 0, 0) + 1

\* the reported blocks alone (the first half of C27)
C27_WindowOnly ==
    Running =>
       \A n \in DOMAIN cfs.file_map, size \in Sizes, offset \in Offsets :
          LET fp == cfs.file_map[n]
              cnt == Min(size, fp.filesize - offset)
          IN Cfs_read_blocks(cfs, n, size, offset) =
                   [i \in 1..cnt |-> fp.start_block + offset + i - 1]

\* what C28 says of a successful write(n, size, offset) of the linked
\* allocator, but for the access count: the chain grows at its tail by the
\* blocks taken from the front of the free queue, one for each position of the
\* walk past the tail; the blocks reported written are those of the chain
\* positions offset .. offset+size-1.
Lfs_WalkAsClaimed(n, size, offset) ==
    LET r == Lfs_write(lfs, n, size, offset)
        old == lfs.file_map[n].start_block
        grow == Max(0, offset + size - Len(old))
        new == r.fs.file_map[n].start_block
    IN /\ grow <= Len(lfs.free_list)
       /\ new = old \o SubSeq(lfs.free_list, 1, grow)
       /\ r.fs.free_list = SubSeq(lfs.free_list, grow + 1, Len(lfs.free_list))
       /\ Lfs_write_blocks(lfs, n, size, offset) = SubSeq(new, offset + 1, offset + size)

\* C28 as stated: in the linked allocator a successful write(name, size,
\* offset) with size >= 1 walks the chain from the head, takes a block from
\* the front of the free queue and appends it to the tail exactly each time
\* the walk runs past the tail, reports written only positions >= offset, and
\* returns the number of chain nodes visited, offset+size.
C28_LfsWriteCountIsVisited ==
    Running =>
       \A n \in DOMAIN lfs.file_map, size \in 1..MaxSize, offset \in Offsets :
          LET r == Lfs_write(lfs, n, size, offset)
          IN r.outcome = "ok" =>
                /\ Lfs_WalkAsClaimed(n, size, offset)
                /\ r.ret = offset + size

\* a file was written, and a write behind its tail from an offset >= 1 succeeds
C28_Witness ==
    /\ engine = "lfs" /\ last.op = "write" /\ last.outcome = "ok"
    /\ \E n \in DOMAIN lfs.file_map, size \in 1..MaxSize, offset \in Offsets :
          /\ offset >= 1
          /\ offset + size > Len(lfs.file_map[n].start_block)
          /\ Lfs_write(lfs, n, size, offset).outcome = "ok"
          /\ Len(Lfs_write_blocks(lfs, n, size, offset)) = size

\* C28 (amended): as C28, but the access count returned is the number of
\* chain nodes visited plus one, offset+size+1.
C28_LfsWriteCountIsVisitedPlusOne ==
    Running =>
       \A n \in DOMAIN lfs.file_map, size \in 1..MaxSize, offset \in Offsets :
          LET r == Lfs_write(lfs, n, size, offset)
          IN r.outcome = "ok" =>
                /\ Lfs_WalkAsClaimed(n, size, offset)
                /\ r.ret = offset + size + 1

====
